---------------------------- MODULE Spec2Model ----------------------------
(***************************************************************************)
(* Ingress trust boundary of the event-tracking service: the HMAC          *)
(* integrity service with its nonce cache (core/security/hmac.ts) and the  *)
(* preHandler chain of the registered API routes (core/http/routes/api.ts, *)
(* core/auth/middleware.ts, core/security/rate-limiter.ts).                *)
(* The token service and the permission check (core/auth/jwt.ts) and the   *)
(* dependency-injection container (core/di/container.ts) are modelled as   *)
(* services called on their own.                                           *)
(*                                                                         *)
(* Time is counted in ticks.  The numeric program constants are scaled so  *)
(* that their cases are reachable: maxAge 300000 ms -> MaxAge ticks, the   *)
(* nonce-cache threshold 1000 -> CacheLimit, the retained 500 ->           *)
(* CacheKeep (the ratio 2:1 of threshold to retained entries is kept).     *)
(***************************************************************************)
EXTENDS Integers, Sequences, FiniteSets, TLC

VARIABLES
    now,          \* Date.now(), in ticks
    nonceCache,   \* per server instance: HMACService.nonceCache in insertion order
    acceptedAt,   \* history: per instance, (site, nonce) -> the last acceptance of the pair
    lastSigned,   \* the call record of the latest HMACService.sign
    lastVerify,   \* the call record of the latest HMACService.verify of this tick
    reqs,         \* the requests in flight through the preHandler chain
    zset,         \* Redis: per rate-limit key, the members of its sorted set
    expireAt,     \* Redis: per rate-limit key, the tick at which the key expires
    calls,        \* the checkLimit calls made through rateLimitMiddleware
    cleared,      \* history: per rate-limit key, the resetLimit calls on it, and whether
                  \* the last one met no call in flight with no checkLimit started since
    held,         \* the token a client holds: the latest one JWTService issued
    authCall,     \* the call record of the latest JWTService or permission call
    services,     \* DIContainer.services: per token, its registration
    isResolved,   \* DIContainer.isResolved
    factoryRuns,  \* history: per token, the runs of the factory of its registration, and
                  \* the instances resolve returned for it
    lastResolve   \* the call record of the latest DIContainer.resolve

vars == <<now, nonceCache, acceptedAt, lastSigned, lastVerify, reqs, zset, expireAt, calls,
          cleared,
          held, authCall, services, isResolved, factoryRuns, lastResolve>>

\* The state of the rate limiter and of its Redis store
rateVars == <<zset, expireAt, calls, cleared>>

\* The token a client holds and the record of the latest token or permission call
authVars == <<held, authCall>>

\* The dependency-injection container
diVars == <<services, isResolved, factoryRuns, lastResolve>>

\* The state of the integrity service and of the request gate
gateVars == <<nonceCache, acceptedAt, lastSigned, lastVerify, reqs>>

---------------------------------------------------------------------------
(* Bounds of the model *)

MaxTime == 2

(* Program constants, scaled (see the header) *)

MaxAge == 1

CacheLimit == 2

CacheKeep == 1

---------------------------------------------------------------------------
(* Values *)

\* Server instances of the deployment: each process has its own module-level
\* hmacService, and so its own nonceCache.
Instances == {"i1", "i2"}

Times == 0..MaxTime

SiteIds == {"ut_A", "ut_B"}

\* The site whose envelopes the service-level specification verifies.
HmacSites == {"ut_A"}

Payloads == {"{}"}

\* env.HMAC_SECRET, the base secret of the global hmacService
Secret == "hmac_secret"

\* the empty string, which createSignature treats as "no salt"
NoSalt == <<>>

\* A nonce `${prefix}-${rnd}`: generateNonce puts Date.now() in the prefix; a
\* client is free to send any prefix.
Rnds == {"k3x9"}

Nonces == [prefix : Times, rnd : Rnds]

\* A string with the prefix 'ut_' that is the id of no site
UnknownSite == "ut_unknown"

\* The strings of the model that start with 'ut_'
UtStrings == SiteIds \cup {UnknownSite}

\* getSiteSalt: `site_salt_${siteId}` for a site id that starts with 'ut_'
StartsWithUt(s) == s \in UtStrings

GetSiteSalt(siteId) == <<"site_salt_", siteId>>

\* `${siteId}:${timestamp}:${nonce}:${payload}`
CreateMessage(payload, timestamp, nonce, siteId) ==
    <<siteId, timestamp, nonce, payload>>

\* The digest of an HMAC: determined by key and message, and different for
\* different keys or messages; len is the byte length of the decoded buffer.
Digest(key, message) == [key |-> key, len |-> 32, msg |-> message]

\* createSignature(message, siteSalt?): the key is `${secret}:${siteSalt}` when a
\* non-empty salt is given and the bare secret otherwise.
CreateSignature(message, siteSalt) ==
    Digest(IF siteSalt # NoSalt THEN <<Secret, ":", siteSalt>> ELSE <<Secret>>, message)

\* Buffer.from(signature, 'hex') of a string that is no hex string of a SHA-256
\* digest decodes to a buffer of another length (here: the empty buffer).
ShortSignature == [key |-> <<"none">>, len |-> 0, msg |-> <<>>]

\* The signatures a client may put on an envelope it sends for siteId: the one
\* made with the per-site secret, the one made with the bare secret, and one that
\* is no digest.
CandidateSignatures(payload, timestamp, nonce, siteId) ==
    {CreateSignature(CreateMessage(payload, timestamp, nonce, siteId), salt) :
        salt \in {GetSiteSalt(siteId), NoSalt}}
    \cup {ShortSignature}

---------------------------------------------------------------------------
(* HMACService *)

\* crypto.timingSafeEqual: throws a RangeError when the byte lengths differ
TimingSafeEqual(a, b) ==
    IF a.len # b.len THEN "throw" ELSE IF a = b THEN "equal" ELSE "differ"

\* nonceCache.has(nonce); a cache entry carries the tick it was added at as
\* history, which the program does not store
Has(cache, nonce) == \E i \in 1..Len(cache) : cache[i].nonce = nonce

\* parseInt(nonce.split('-')[0] || '0')
NonceTimestamp(nonce) == nonce.prefix

\* One step of the stable sort with comparator timestampB - timestampA: e goes
\* behind every entry whose timestamp is not smaller than its own.
RECURSIVE InsertDesc(_, _)
InsertDesc(sorted, e) ==
    IF sorted = <<>> THEN <<e>>
    ELSE IF NonceTimestamp(Head(sorted).nonce) >= NonceTimestamp(e.nonce)
         THEN <<Head(sorted)>> \o InsertDesc(Tail(sorted), e)
         ELSE <<e>> \o sorted

\* Array.prototype.sort (stable) of the cache entries, newest nonce timestamp first
RECURSIVE SortDesc(_)
SortDesc(s) ==
    IF s = <<>> THEN <<>>
    ELSE InsertDesc(SortDesc(SubSeq(s, 1, Len(s) - 1)), s[Len(s)])

\* a clean-up that never cuts the cache
CleanupNonces_Never(cache) == cache

\* cleanupNonces: above CacheLimit entries, keep the CacheKeep entries with the
\* newest nonce timestamps, re-inserted in sorted order
CleanupNonces(cache) ==
    IF Len(cache) > CacheLimit
    THEN SubSeq(SortDesc(cache), 1, CacheKeep)
    ELSE cache

\* the timestamp check with the bound included in the rejected ages
TooOld_OffByOne(age) == age >= MaxAge

\* the timestamp check of verify
TooOld(age) == age > MaxAge

\* verify with the nonce lookup placed ahead of the timestamp check
VerifyResult_NonceFirst(cache, t, sr, siteId, siteSalt) ==
    LET age == t - sr.timestamp
        expected == CreateSignature(
            CreateMessage(sr.payload, sr.timestamp, sr.nonce, siteId), siteSalt)
        cmp == TimingSafeEqual(sr.signature, expected)
    IN  IF Has(cache, sr.nonce)
        THEN [age |-> 0, valid |-> FALSE, error |-> "Nonce already used", hasAge |-> FALSE]
        ELSE IF TooOld(age)
        THEN [age |-> age, valid |-> FALSE, error |-> "Request too old", hasAge |-> TRUE]
        ELSE IF cmp = "throw"
        THEN [age |-> 0, valid |-> FALSE, error |-> "Verification failed", hasAge |-> FALSE]
        ELSE IF cmp = "differ"
        THEN [age |-> 0, valid |-> FALSE, error |-> "Invalid signature", hasAge |-> FALSE]
        ELSE [age |-> age, valid |-> TRUE, error |-> "", hasAge |-> TRUE]

\* verify(signedRequest, siteId, siteSalt) at tick t: the HMACValidationResult
VerifyResult(cache, t, sr, siteId, siteSalt) ==
    LET age == t - sr.timestamp
        expected == CreateSignature(
            CreateMessage(sr.payload, sr.timestamp, sr.nonce, siteId), siteSalt)
        cmp == TimingSafeEqual(sr.signature, expected)
    IN  IF TooOld(age)
        THEN [age |-> age, valid |-> FALSE, error |-> "Request too old", hasAge |-> TRUE]
        ELSE IF Has(cache, sr.nonce)
        THEN [age |-> 0, valid |-> FALSE, error |-> "Nonce already used", hasAge |-> FALSE]
        ELSE IF cmp = "throw"
        THEN [age |-> 0, valid |-> FALSE, error |-> "Verification failed", hasAge |-> FALSE]
        ELSE IF cmp = "differ"
        THEN [age |-> 0, valid |-> FALSE, error |-> "Invalid signature", hasAge |-> FALSE]
        ELSE [age |-> age, valid |-> TRUE, error |-> "", hasAge |-> TRUE]

\* a verify that records the nonce of every call, accepted or not
VerifyCache_Always(cache, t, sr, res) ==
    CleanupNonces(Append(cache, [nonce |-> sr.nonce, at |-> t]))

\* verify's effect on the nonce cache: an accepted nonce is added, then the
\* clean-up runs
VerifyCache(cache, t, sr, res) ==
    IF res.valid
    THEN CleanupNonces(Append(cache, [nonce |-> sr.nonce, at |-> t]))
    ELSE cache

\* the cache entries a verify call removed
Evicted(before, after) ==
    {before[i] : i \in 1..Len(before)} \ {after[i] : i \in 1..Len(after)}

---------------------------------------------------------------------------
(* RateLimiter (core/security/rate-limiter.ts): its configuration, its Redis *)
(* store and its calls.  One tick is one second; the window and the quota   *)
(* are scaled so that a full window and an exhausted quota are reachable.   *)

\* RateLimitConfig.windowMs, in ticks, and RateLimitConfig.maxRequests
RateWindow == 2

RateMax == 1

\* Math.ceil(windowMs / 1000): the seconds the key lives after a call
ExpireTicks == RateWindow

\* The number of checkLimit calls made
MaxCalls == 3

CallIds == 1..MaxCalls

Ips == {"10.0.0.1"}

\* request.site_id || request.user?.site_id when the middleware runs: a site, or undefined
RateSites == {"none", "ut_A"}

\* RATE_LIMIT_CONFIGS.API.keyGenerator: 'rate_limit:site:{site_id}:ip:{ip_address}'
\* with a site, `rate_limit:ip:${ip}` without
KeyGenerator(ip, siteId) ==
    IF siteId # "none" THEN <<"rate_limit:site:", siteId, ":ip:", ip>>
    ELSE <<"rate_limit:ip:", "", "", ip>>

RateKeys == {KeyGenerator(ip, s) : ip \in Ips, s \in RateSites}

\* A key without a time to live
NoExpiry == -1

\* RateLimitResult before the call has returned
NoResult == [allowed |-> FALSE, remaining |-> 0, resetTime |-> 0, totalHits |-> 0]

\* A call not made yet.  prior, overlapped, stale and quiet record what the
\* call met: the calls on its key completed within the window before it, whether
\* another call on its key was in flight with it, whether its count was taken
\* between the count and the insert of another call, and whether every entry
\* of its key was a full window old when it started.  verdict, replied and
\* continues record what rateLimitMiddleware did with the outcome of the call:
\* pass, failopen or deny, the status it sent (0 for none), and whether the
\* chain goes on to the next hook.  counted holds the entries zcard counted and
\* afterReset tells whether the call is the first on its key after a resetLimit,
\* late whether a command of its pipeline ran in a later tick than the call was made.
NoCall ==
    [key |-> <<>>, t |-> 0, conn |-> "none", windowStart |-> 0, step |-> "idle",
     threw |-> FALSE, prior |-> {}, overlapped |-> FALSE, stale |-> FALSE,
     quiet |-> FALSE, returned |-> NoResult,
     verdict |-> "none", replied |-> 0, continues |-> FALSE,
     counted |-> {}, afterReset |-> FALSE, late |-> FALSE]

\* The number of resetLimit calls made
MaxResets == 1

NeverCleared == [times |-> 0, clean |-> FALSE]

\* No key in the store, no call made
RateIdle ==
    /\ zset = [k \in RateKeys |-> {}]
    /\ expireAt = [k \in RateKeys |-> NoExpiry]
    /\ calls = [c \in CallIds |-> NoCall]
    /\ cleared = [k \in RateKeys |-> NeverCleared]

---------------------------------------------------------------------------
(* JWTService and PermissionChecker (core/auth/jwt.ts): tokens, claims and   *)
(* the permission lists.  In the token specification a tick of now is half   *)
(* a second; the lifetimes 15 minutes and 7 days are scaled to               *)
(* AccessLifetime and RefreshLifetime seconds.                               *)

MaxClock == 6

TicksPerSecond == 2

AccessLifetime == 1

RefreshLifetime == 2

\* Math.floor(Date.now() / 1000)
Seconds(t) == t \div TicksPerSecond

JwtSecret == <<"jwt_secret">>

\* `${env.JWT_SECRET}_refresh`
RefreshSecret == JwtSecret \o <<"_refresh">>

Issuer == "universal-tracking"

\* A claim the payload does not carry (undefined)
Absent == "(absent)"

\* !value for a claim: undefined or the empty string
Falsy(v) == v \in {Absent, ""}

UserIds == {"user_1"}

ClaimSites == {"ut_A", "", Absent}

ClaimTenants == {"tenant_1", ""}

\* The permission lists principals carry
PermissionLists == {<<>>, <<"read">>, <<"read", "write">>, <<"*">>}

\* The permission lists routes require
RequiredLists == {<<>>, <<"write">>, <<"read", "write">>, <<"admin">>}

\* The payloads handed to generateAccessToken
AccessPayloads ==
    [sub : UserIds, site_id : ClaimSites, tenant_id : ClaimTenants,
     permissions : {<<"read">>, <<"*">>}]

\* jwt.sign(payload, secret): the token carries the claims and is bound to the secret
JwtSign(body, secret) == [signedWith |-> secret, claims |-> body]

NoClaims ==
    [sub |-> Absent, site_id |-> Absent, tenant_id |-> Absent, permissions |-> <<>>,
     iat |-> 0, exp |-> 0, iss |-> Absent, type |-> Absent]

\* A string that is no token signed with a secret of the service
Garbage == JwtSign(NoClaims, <<"none">>)

\* No token held
NoJwt == [jwt |-> Garbage, issuedAt |-> -1, kind |-> "none"]

\* request.user is undefined
NoUser == [permissions |-> <<>>, known |-> FALSE]

\* request.user as authMiddleware and apiKeyMiddleware set it, with its permissions
Users == {[permissions |-> l, known |-> TRUE] : l \in PermissionLists}

NoOutcome == [error |-> "", accepted |-> FALSE, decoded |-> NoClaims]

NoAuthCall ==
    [at |-> -1, jwt |-> Garbage, issuedAt |-> -1, kind |-> "none", op |-> "none",
     genuine |-> FALSE, minted |-> FALSE, out |-> NoOutcome,
     principal |-> NoUser, required |-> <<>>, status |-> 0, code |-> "", listed |-> <<>>,
     lapsed |-> FALSE]

\* No token issued, no call made
AuthIdle ==
    /\ held = NoJwt
    /\ authCall = NoAuthCall

---------------------------------------------------------------------------
(* DIContainer (core/di/container.ts): registrations and the instances      *)
(* their factories return.                                                   *)

\* The factory runs counted per registration
MaxRuns == 3

ServiceTokens == {"LOGGER", "EVENT_BUS"}

\* What a factory returns: a new object at every run, or always the same
\* falsy value (null, 0, the empty string)
Factories == {"object", "null", "zero", "empty"}

\* registration.instance before it is assigned
Undefined == [sort |-> "undefined", serial |-> 0]

\* The value the n-th run of a factory returns
FactoryValue(factory, n) ==
    IF factory = "object" THEN [sort |-> "object", serial |-> n]
    ELSE [sort |-> factory, serial |-> 0]

\* JavaScript truthiness of a value: objects are truthy; undefined, null, 0
\* and '' are not
Truthy(v) == v.sort = "object"

\* this.services.get(token) of a token not registered
NotRegistered ==
    [factory |-> "object", registered |-> FALSE, singleton |-> FALSE, instance |-> Undefined]

NoRuns == [count |-> 0, handed |-> {}]

NoResolve ==
    [threw |-> FALSE, service |-> "none", called |-> FALSE, ran |-> FALSE, got |-> Undefined]

\* new DIContainer()
DiIdle ==
    /\ services = [k \in ServiceTokens |-> NotRegistered]
    /\ isResolved = FALSE
    /\ factoryRuns = [k \in ServiceTokens |-> NoRuns]
    /\ lastResolve = NoResolve

---------------------------------------------------------------------------
(* The integrity service called directly: sign and verify on one instance *)

NoSigned == [called |-> FALSE]

NoVerify == [called |-> FALSE]

NoRequests == <<>>

\* history of a (site, nonce) pair: the tick of its last acceptance and the
\* timestamp of the accepted envelope; -1 when the pair was never accepted
NeverAccepted == [timestamp |-> -1, at |-> -1]

InitHmac ==
    /\ now = 0
    /\ nonceCache = [i \in Instances |-> <<>>]
    /\ acceptedAt = [i \in Instances |-> [k \in UtStrings \X Nonces |-> NeverAccepted]]
    /\ lastSigned = NoSigned
    /\ lastVerify = NoVerify
    /\ reqs = NoRequests
    /\ RateIdle
    /\ AuthIdle
    /\ DiIdle

\* The clock advances; the record of the verify call of the tick before is dropped.
Tick ==
    /\ now < MaxTime
    /\ now' = now + 1
    /\ lastVerify' = NoVerify
    /\ UNCHANGED <<nonceCache, acceptedAt, lastSigned, reqs, rateVars, authVars, diVars>>

\* generateNonce: `${Date.now()}-${random}`
GenerateNonce(t, rnd) == [prefix |-> t, rnd |-> rnd]

\* sign(payload, siteId): timestamp = Date.now(), a generated nonce, and the
\* signature createSignature(message) made without a site salt
SignRequest(payload, siteId, t, rnd) ==
    LET nonce == GenerateNonce(t, rnd)
    IN  [payload   |-> payload,
         timestamp |-> t,
         nonce     |-> nonce,
         signature |-> CreateSignature(CreateMessage(payload, t, nonce, siteId), NoSalt)]

\* A client signs a payload for a site with HMACService.sign.
Sign(payload, siteId, rnd) ==
    /\ lastSigned' = [siteId |-> siteId,
                      sr |-> SignRequest(payload, siteId, now, rnd),
                      called |-> TRUE]
    /\ UNCHANGED <<now, nonceCache, acceptedAt, lastVerify, reqs, rateVars, authVars, diVars>>

\* One call of hmacService.verify on instance i, with the record of the call.
DoVerify(i, sr, siteId, siteSalt) ==
    LET before == nonceCache[i]
        res    == VerifyResult(before, now, sr, siteId, siteSalt)
        after  == VerifyCache(before, now, sr, res)
    IN  /\ nonceCache' = [nonceCache EXCEPT ![i] = after]
        /\ acceptedAt' = IF res.valid
                         THEN [acceptedAt EXCEPT ![i][<<siteId, sr.nonce>>] =
                                  [timestamp |-> sr.timestamp, at |-> now]]
                         ELSE acceptedAt
        /\ lastVerify' = [siteId |-> siteId, siteSalt |-> siteSalt, sr |-> sr,
                          at |-> now, called |-> TRUE, inst |-> i,
                          fresh |-> ~Has(before, sr.nonce),
                          prevAccept |-> acceptedAt[i][<<siteId, sr.nonce>>],
                          result |-> res,
                          evicted |-> Evicted(before, after)]

\* verify(signedRequest, siteId, siteSalt) called on the service of instance "i1"
\* with the salt of the site, as hmacMiddleware calls it
Verify(sr, siteId) ==
    /\ DoVerify("i1", sr, siteId, GetSiteSalt(siteId))
    /\ UNCHANGED <<now, lastSigned, reqs, rateVars, authVars, diVars>>

\* verify of the envelope the latest sign call returned
VerifySigned(siteId) ==
    /\ lastSigned.called
    /\ DoVerify("i1", lastSigned.sr, siteId, GetSiteSalt(siteId))
    /\ UNCHANGED <<now, lastSigned, reqs, rateVars, authVars, diVars>>

NextHmac ==
    \/ Tick
    \/ \E s \in HmacSites, ts \in Times, n \in Nonces, p \in Payloads :
          \E g \in CandidateSignatures(p, ts, n, s) :
             Verify([payload |-> p, timestamp |-> ts, nonce |-> n, signature |-> g], s)

SpecHmac == InitHmac /\ [][NextHmac]_vars

\* The payloads clients sign: JSON.stringify of an empty body and of {test: 'data'}
SignPayloads == Payloads \cup {"{\"test\":\"data\"}"}

NextSign ==
    \/ Tick
    \/ \E p \in SignPayloads, s \in SiteIds, rnd \in Rnds : Sign(p, s, rnd)
    \/ \E s \in SiteIds : VerifySigned(s)

SpecSign == InitHmac /\ [][NextSign]_vars

---------------------------------------------------------------------------
(* The preHandler chain of the registered API routes *)

\* Two concurrent requests.
Requests == {"r1", "r2"}

\* GET /api/sites/current, GET /api/sites/:site_id/events, POST /api/sites/:site_id/events
Routes == {"current", "read", "write"}

\* The Authorization header: absent, a bearer token extractJWTFromRequest
\* rejects (it returns null), or an access token it verifies, with its site_id claim.
NoToken == [site_id |-> "none", present |-> FALSE, verifies |-> FALSE]

\* The site_id claim of a validly signed token that names no site
InvalidSite == "invalid_site"

Tokens ==
    {NoToken}
    \cup {[site_id |-> "none", present |-> TRUE, verifies |-> FALSE]}
    \cup {[site_id |-> s, present |-> TRUE, verifies |-> TRUE] :
              s \in SiteIds \cup {InvalidSite}}

\* The X-Api-Key header: absent (""), a key without the prefix 'ut_', a site
\* id, or a key with the prefix that is the id of no site.
ApiKeys == {"", "bad_key"} \cup UtStrings

\* The X-Signature, X-Timestamp and X-Nonce headers: absent, or the envelope a
\* client made at tick 0 for the site of its API key.
NoHeaders == [present |-> FALSE]

GateNonces == {n \in Nonces : n.prefix = 0}

\* One of the three headers is absent.
PartialHeaders ==
    {[present |-> FALSE, lacks |-> h] : h \in {"x-signature", "x-timestamp", "x-nonce"}}

HmacHeaders(apiKey) ==
    {NoHeaders} \cup PartialHeaders \cup
    UNION {UNION {
        {[sr |-> [payload |-> p, timestamp |-> 0, nonce |-> n, signature |-> g],
          present |-> TRUE] :
            g \in CandidateSignatures(p, 0, n, apiKey)} :
        p \in Payloads} : n \in GateNonces}

\* No reply sent yet.
NoReply == [status |-> 0, code |-> ""]

\* A request as it enters the chain: nothing resolved, nothing sent.
NewRequest(route, inst, token, apiKey, target, headers) ==
    [site_id |-> "none", inst |-> inst, apiKey |-> apiKey, route |-> route,
     token |-> token, target |-> target, headers |-> headers,
     pc |-> "rateLimit", user |-> "none",
     reply |-> NoReply, hmacValid |-> FALSE, handlerRan |-> FALSE, stages |-> <<>>,
     thrown |-> "none"]

\* The requests a client may send: a token on the JWT routes, an API key and
\* integrity headers on the tracking route.
RequestInputs ==
    {NewRequest("current", "i1", t, "", "none", NoHeaders) : t \in Tokens}
    \cup {NewRequest("read", "i1", t, "", target, NoHeaders) : t \in Tokens, target \in SiteIds}
    \cup UNION {
        {NewRequest("write", i, NoToken, k, target, h) :
            i \in Instances, target \in SiteIds, h \in HmacHeaders(k)} : k \in ApiKeys}

\* The instances are alike: the first request is served by "i1".
InitGate ==
    /\ now = 0
    /\ nonceCache = [i \in Instances |-> <<>>]
    /\ acceptedAt = [i \in Instances |-> [k \in UtStrings \X Nonces |-> NeverAccepted]]
    /\ lastSigned = NoSigned
    /\ lastVerify = NoVerify
    /\ reqs \in [Requests -> RequestInputs]
    /\ reqs["r1"].inst = "i1"
    /\ RateIdle
    /\ AuthIdle
    /\ DiIdle

\* A stage result: the hook returns without replying, or it sends an error reply.
Pass == [status |-> 0, code |-> "", outcome |-> "pass"]

FailOpen == [status |-> 0, code |-> "", outcome |-> "failopen"]

Deny(status, code) == [status |-> status, code |-> code, outcome |-> "deny"]

\* A chain that would go on to the next hook whether or not a reply was sent.
HookContinues_Always(reply) == TRUE

\* Fastify runs the next preHandler hook, and after the last one the handler,
\* only while no reply has been sent.
HookContinues(reply) == reply = NoReply

\* A hook of request r ends with result res; next is what follows it in the chain.
EndStage(r, stage, res, next, fields) ==
    LET reply == IF res.outcome = "deny"
                 THEN [status |-> res.status, code |-> res.code]
                 ELSE reqs[r].reply
    IN  reqs' = [reqs EXCEPT ![r] =
            [fields EXCEPT
                !.reply = reply,
                !.stages = Append(reqs[r].stages, <<stage, res.outcome>>),
                !.pc = IF HookContinues(reply) THEN next ELSE "done"]]

\* A middleware that would answer 429 when the call throws
RateLimitOutcome_FailClosed(threw, allowed) ==
    IF threw \/ ~allowed THEN Deny(429, "RATE_LIMIT_EXCEEDED") ELSE Pass

\* A catch block that would log the error and let the request through
CaughtResult_FailOpen(stage) == FailOpen

\* The reply of the catch block of a middleware when a call inside its try
\* block throws
CaughtResult(stage) ==
    CASE stage = "auth" -> Deny(401, "AUTH_INVALID")
      [] stage = "apiKey" -> Deny(401, "API_KEY_VALIDATION_ERROR")
      [] stage = "hmac" -> Deny(500, "HMAC_VALIDATION_ERROR")

\* rateLimitMiddleware around rateLimiter.checkLimit: a call that throws is
\* caught, logged and let through; a result that is not allowed is answered 429.
RateLimitOutcome(threw, allowed) ==
    IF threw THEN FailOpen
    ELSE IF ~allowed THEN Deny(429, "RATE_LIMIT_EXCEEDED")
    ELSE Pass

\* rateLimitMiddleware, the first preHandler hook of every /api route.  The
\* limiter registerApiRoutes passes is the empty object: calling its checkLimit
\* throws, and the catch block logs and lets the request through.
RateLimitResult == RateLimitOutcome(TRUE, FALSE)

RateLimitStage(r) ==
    /\ reqs[r].pc = "rateLimit"
    /\ EndStage(r, "rateLimit", RateLimitResult,
                IF reqs[r].route = "write" THEN "apiKey" ELSE "auth", reqs[r])
    /\ UNCHANGED <<now, nonceCache, acceptedAt, lastSigned, lastVerify, rateVars, authVars, diVars>>

\* extractJWTFromRequest: the payload (here its site_id claim) or null
ExtractJWTFromRequest(token) ==
    IF token.present /\ token.verifies THEN token.site_id ELSE "null"

\* authMiddleware, the hook of the JWT routes
AuthResult(token) ==
    IF ExtractJWTFromRequest(token) = "null" THEN Deny(401, "AUTH_REQUIRED") ELSE Pass

\* setSiteIdForRLS, awaited after request.user is set, may throw.
AuthStage(r) ==
    /\ reqs[r].pc = "auth"
    /\ \E threw \in BOOLEAN :
        LET found == AuthResult(reqs[r].token)
            res   == IF threw THEN CaughtResult("auth") ELSE found
        IN  /\ threw => found.outcome = "pass"
            /\ EndStage(r, "auth", res,
                    IF reqs[r].route = "read" THEN "siteAccess" ELSE "handler",
                    IF found.outcome = "pass"
                    THEN [reqs[r] EXCEPT
                             !.user = ExtractJWTFromRequest(reqs[r].token),
                             !.thrown = IF threw THEN "auth" ELSE @]
                    ELSE reqs[r])
    /\ UNCHANGED <<now, nonceCache, acceptedAt, lastSigned, lastVerify, rateVars, authVars, diVars>>

\* validateApiKey: the key itself as site id when it starts with 'ut_', else null
ValidateApiKey(apiKey) == IF StartsWithUt(apiKey) THEN apiKey ELSE "null"

\* apiKeyMiddleware, the hook of the tracking routes
ApiKeyResult(apiKey) ==
    IF apiKey = "" THEN Deny(401, "API_KEY_REQUIRED")
    ELSE IF ValidateApiKey(apiKey) = "null" THEN Deny(401, "API_KEY_INVALID")
    ELSE Pass

\* validateApiKey and setSiteIdForRLS, awaited before request.site_id is set,
\* may throw.
ApiKeyStage(r) ==
    /\ reqs[r].pc = "apiKey"
    /\ \E threw \in BOOLEAN :
        LET found == ApiKeyResult(reqs[r].apiKey)
            res   == IF threw THEN CaughtResult("apiKey") ELSE found
        IN  /\ threw => reqs[r].apiKey # ""
            /\ EndStage(r, "apiKey", res, "hmac",
                    IF threw THEN [reqs[r] EXCEPT !.thrown = "apiKey"]
                    ELSE IF found.outcome = "pass"
                    THEN [reqs[r] EXCEPT !.site_id = ValidateApiKey(reqs[r].apiKey)]
                    ELSE reqs[r])
    /\ UNCHANGED <<now, nonceCache, acceptedAt, lastSigned, lastVerify, rateVars, authVars, diVars>>

\* PermissionChecker.canAccessSite
CanAccessSite(userSite, siteId) == userSite = siteId

\* siteAccessMiddleware, the preHandler of GET /sites/:site_id/events; the
\* requested site is the :site_id of the path
SiteAccessResult(userSite, requestedSiteId) ==
    IF userSite = "none" THEN Deny(401, "AUTH_REQUIRED")
    ELSE IF requestedSiteId = "none" THEN Deny(400, "SITE_ID_REQUIRED")
    ELSE IF ~CanAccessSite(userSite, requestedSiteId) THEN Deny(403, "SITE_ACCESS_DENIED")
    ELSE Pass

SiteAccessStage(r) ==
    /\ reqs[r].pc = "siteAccess"
    /\ EndStage(r, "siteAccess", SiteAccessResult(reqs[r].user, reqs[r].target),
                "handler", reqs[r])
    /\ UNCHANGED <<now, nonceCache, acceptedAt, lastSigned, lastVerify, rateVars, authVars, diVars>>

\* A middleware that would answer missing headers as an invalid signature
HmacHeadersResult_Unauthorized(headers, siteId) ==
    IF ~headers.present THEN Deny(401, "HMAC_INVALID")
    ELSE IF siteId = "none" THEN Deny(400, "SITE_ID_REQUIRED")
    ELSE Pass

\* hmacMiddleware up to its await of getSiteSalt: the headers and the site id
\* (request.site_id, set by apiKeyMiddleware)
HmacHeadersResult(headers, siteId) ==
    IF ~headers.present THEN Deny(400, "HMAC_HEADERS_MISSING")
    ELSE IF siteId = "none" THEN Deny(400, "SITE_ID_REQUIRED")
    ELSE Pass

HmacStage(r) ==
    /\ reqs[r].pc = "hmac"
    /\ LET res == HmacHeadersResult(reqs[r].headers, reqs[r].site_id)
       IN  IF res.outcome = "deny"
           THEN EndStage(r, "hmac", res, "done", reqs[r])
           ELSE reqs' = [reqs EXCEPT ![r].pc = "hmacVerify"]
    /\ UNCHANGED <<now, nonceCache, acceptedAt, lastSigned, lastVerify, rateVars, authVars, diVars>>

\* hmacMiddleware after the await: the salt of the site, then
\* hmacService.verify on the instance that serves the request
HmacVerifyResult(valid) ==
    IF valid THEN Pass ELSE Deny(401, "HMAC_INVALID")

HmacVerifyStage(r) ==
    /\ reqs[r].pc = "hmacVerify"
    /\ IF ~StartsWithUt(reqs[r].site_id)
       THEN /\ EndStage(r, "hmac", Deny(400, "SITE_ID_INVALID"), "done", reqs[r])
            /\ UNCHANGED <<nonceCache, acceptedAt, lastVerify>>
       ELSE /\ DoVerify(reqs[r].inst, reqs[r].headers.sr, reqs[r].site_id,
                        GetSiteSalt(reqs[r].site_id))
            /\ LET valid == VerifyResult(nonceCache[reqs[r].inst], now, reqs[r].headers.sr,
                                         reqs[r].site_id, GetSiteSalt(reqs[r].site_id)).valid
               IN  EndStage(r, "hmac", HmacVerifyResult(valid), "handler",
                            [reqs[r] EXCEPT !.hmacValid = valid])
    /\ UNCHANGED <<now, lastSigned, rateVars, authVars, diVars>>

\* getSiteSalt, awaited by hmacMiddleware, throws: the catch block answers.
HmacThrows(r) ==
    /\ reqs[r].pc = "hmacVerify"
    /\ EndStage(r, "hmac", CaughtResult("hmac"), "handler",
                [reqs[r] EXCEPT !.thrown = "hmac"])
    /\ UNCHANGED <<now, nonceCache, acceptedAt, lastSigned, lastVerify, rateVars, authVars, diVars>>

\* The route handler runs and answers.
Handler(r) ==
    /\ reqs[r].pc = "handler"
    /\ reqs' = [reqs EXCEPT ![r] =
            [reqs[r] EXCEPT !.handlerRan = TRUE,
                            !.reply = [status |-> 200, code |-> ""],
                            !.pc = "done"]]
    /\ UNCHANGED <<now, nonceCache, acceptedAt, lastSigned, lastVerify, rateVars, authVars, diVars>>

NextGate ==
    \E r \in Requests :
        \/ RateLimitStage(r)
        \/ AuthStage(r)
        \/ ApiKeyStage(r)
        \/ SiteAccessStage(r)
        \/ HmacStage(r)
        \/ HmacVerifyStage(r)
        \/ HmacThrows(r)
        \/ Handler(r)

SpecGate == InitGate /\ [][NextGate]_vars

---------------------------------------------------------------------------
(* RateLimiter.checkLimit: one pipeline of four Redis commands per call.  A  *)
(* connection sends the commands of one pipeline back to back; the server   *)
(* runs each command atomically and may run commands of other connections   *)
(* between them (a pipeline is not a MULTI transaction).                    *)

Pipelined == {"zremrangebyscore", "zcard", "zadd", "expire"}

InFlight(c) == calls[c].step \in Pipelined

\* Redis drops a key whose time to live has passed.
Expired(key) == expireAt[key] # NoExpiry /\ expireAt[key] <= now

Live(key) == IF Expired(key) THEN {} ELSE zset[key]

\* A command leaves the key with these members; an empty key does not exist
\* and a key dropped or created anew has no time to live.
Store(key, members) ==
    /\ zset' = [zset EXCEPT ![key] = members]
    /\ expireAt' = [expireAt EXCEPT ![key] =
            IF Expired(key) \/ members = {} THEN NoExpiry ELSE expireAt[key]]

\* A command of call c runs now, or ran, in a later tick than the call was made.
Late(c) == calls[c].late \/ now # calls[c].t

\* A removal that would spare the entries exactly one window old
Survives_Inclusive(score, windowStart) == score >= windowStart

\* zremrangebyscore(key, '-inf', windowStart) removes the scores up to and
\* including windowStart; the entries above it survive.
Survives(score, windowStart) == score > windowStart

\* allowed = currentCount <= maxRequests
Allowed(currentCount) == currentCount <= RateMax

\* Math.max(0, maxRequests - currentCount)
Remaining(currentCount) ==
    IF RateMax - currentCount > 0 THEN RateMax - currentCount ELSE 0

\* The RateLimitResult checkLimit returns for the count of zcard
CheckLimitResult(currentCount, t) ==
    [allowed |-> Allowed(currentCount), remaining |-> Remaining(currentCount),
     resetTime |-> t + RateWindow, totalHits |-> currentCount]

\* rateLimitMiddleware receives the outcome of checkLimit for call c.
Answered(call, threw, allowed) ==
    LET res == RateLimitOutcome(threw, allowed)
        sent == IF res.outcome = "deny"
                THEN [status |-> res.status, code |-> res.code]
                ELSE NoReply
    IN  [call EXCEPT !.verdict = res.outcome,
                     !.replied = res.status,
                     !.continues = HookContinues(sent)]

\* checkLimit(ip, siteId) on a connection: the key, now, windowStart, and the
\* pipeline handed to the connection
CheckLimit(c, conn, ip, siteId) ==
    LET key      == KeyGenerator(ip, siteId)
        others   == {d \in CallIds \ {c} : calls[d].key = key}
        inflight == {d \in others : InFlight(d)}
    IN  /\ calls[c].step = "idle"
        /\ \A d \in 1..(c - 1) : calls[d].step # "idle"
        /\ \A d \in CallIds : InFlight(d) => calls[d].conn # conn
        /\ calls' = [d \in CallIds |->
               IF d = c
               THEN [key |-> key, t |-> now, conn |-> conn,
                     windowStart |-> now - RateWindow, step |-> "zremrangebyscore",
                     threw |-> FALSE,
                     prior |-> {e \in others : /\ calls[e].step = "done"
                                               /\ ~calls[e].threw
                                               /\ now - calls[e].t < RateWindow},
                     overlapped |-> inflight # {},
                     stale |-> FALSE,
                     quiet |-> /\ inflight = {}
                               /\ \A m \in Live(key) : m.score <= now - RateWindow,
                     returned |-> NoResult,
                     verdict |-> "none", replied |-> 0, continues |-> FALSE,
                     counted |-> {}, afterReset |-> cleared[key].clean,
                     late |-> FALSE]
               ELSE IF d \in inflight THEN [calls[d] EXCEPT !.overlapped = TRUE]
               ELSE calls[d]]
        /\ cleared' = [cleared EXCEPT ![key].clean = FALSE]
        /\ UNCHANGED <<now, zset, expireAt, gateVars, authVars, diVars>>

\* pipeline.zremrangebyscore(key, '-inf', windowStart)
Zremrangebyscore(c) ==
    /\ calls[c].step = "zremrangebyscore"
    /\ Store(calls[c].key, {m \in Live(calls[c].key) : Survives(m.score, calls[c].windowStart)})
    /\ calls' = [calls EXCEPT ![c].step = "zcard", ![c].late = Late(c)]
    /\ UNCHANGED <<now, cleared, gateVars, authVars, diVars>>

\* pipeline.zcard(key): the count before the entry of this call is added
Zcard(c) ==
    /\ calls[c].step = "zcard"
    /\ calls' = [calls EXCEPT
            ![c].step = "zadd",
            ![c].stale = \E d \in CallIds \ {c} :
                            calls[d].key = calls[c].key /\ calls[d].step = "zadd",
            ![c].returned = [NoResult EXCEPT !.totalHits = Cardinality(Live(calls[c].key))],
            ![c].counted = Live(calls[c].key),
            ![c].late = Late(c)]
    /\ UNCHANGED <<now, zset, expireAt, cleared, gateVars, authVars, diVars>>

\* an insert made only for a call that will be allowed
Zadd_OnlyAllowed(c) ==
    /\ calls[c].step = "zadd"
    /\ Store(calls[c].key,
             IF Allowed(calls[c].returned.totalHits)
             THEN Live(calls[c].key) \cup {[score |-> calls[c].t, member |-> c]}
             ELSE Live(calls[c].key))
    /\ calls' = [calls EXCEPT ![c].step = "expire", ![c].late = Late(c)]
    /\ UNCHANGED <<now, cleared, gateVars, authVars, diVars>>

\* pipeline.zadd(key, now, `${now}-${Math.random()}`): a member of its own
Zadd(c) ==
    /\ calls[c].step = "zadd"
    /\ Store(calls[c].key, Live(calls[c].key) \cup {[score |-> calls[c].t, member |-> c]})
    /\ calls' = [calls EXCEPT ![c].step = "expire"]
    /\ UNCHANGED <<now, cleared, gateVars, authVars, diVars>>

\* pipeline.expire(key, Math.ceil(windowMs / 1000)); exec() resolves and
\* checkLimit returns its returned
Expire(c) ==
    /\ calls[c].step = "expire"
    /\ expireAt' = [expireAt EXCEPT ![calls[c].key] =
            IF Live(calls[c].key) = {} THEN NoExpiry ELSE now + ExpireTicks]
    /\ zset' = [zset EXCEPT ![calls[c].key] = Live(calls[c].key)]
    /\ LET res == CheckLimitResult(calls[c].returned.totalHits, calls[c].t)
       IN  calls' = [calls EXCEPT ![c] =
               Answered([calls[c] EXCEPT !.step = "done", !.returned = res,
                                         !.late = Late(c)],
                        FALSE, res.allowed)]
    /\ UNCHANGED <<now, cleared, gateVars, authVars, diVars>>

\* The store is unreachable when the pipeline is sent: no command runs,
\* exec() fails and checkLimit throws.
StoreFails(c) ==
    /\ calls[c].step = "zremrangebyscore"
    /\ calls' = [calls EXCEPT ![c] =
           Answered([calls[c] EXCEPT !.step = "done", !.threw = TRUE], TRUE, FALSE)]
    /\ UNCHANGED <<now, zset, expireAt, cleared, gateVars, authVars, diVars>>

\* The resetLimit calls made so far
RECURSIVE SumTimes(_)
SumTimes(keys) ==
    IF keys = {} THEN 0
    ELSE LET k == CHOOSE x \in keys : TRUE
         IN  cleared[k].times + SumTimes(keys \ {k})

ResetsMade == SumTimes(RateKeys)

\* The history of a key after a resetLimit on it
Cleared(key) ==
    [times |-> cleared[key].times + 1,
     clean |-> \A d \in CallIds : InFlight(d) => calls[d].key # key]

\* a reset that empties every key of the store
ResetLimit_AllKeys(ip, siteId) ==
    /\ ResetsMade < MaxResets
    /\ zset' = [k \in RateKeys |-> {}]
    /\ expireAt' = [k \in RateKeys |-> NoExpiry]
    /\ cleared' = [cleared EXCEPT ![KeyGenerator(ip, siteId)] =
            Cleared(KeyGenerator(ip, siteId))]
    /\ UNCHANGED <<now, calls, gateVars, authVars, diVars>>

\* resetLimit(ip, siteId): redis.del(key)
ResetLimit(ip, siteId) ==
    /\ ResetsMade < MaxResets
    /\ zset' = [zset EXCEPT ![KeyGenerator(ip, siteId)] = {}]
    /\ expireAt' = [expireAt EXCEPT ![KeyGenerator(ip, siteId)] = NoExpiry]
    /\ cleared' = [cleared EXCEPT ![KeyGenerator(ip, siteId)] =
            Cleared(KeyGenerator(ip, siteId))]
    /\ UNCHANGED <<now, calls, gateVars, authVars, diVars>>

NextRate ==
    \/ Tick
    \/ \E c \in CallIds, conn \in Instances, ip \in Ips, siteId \in RateSites :
            CheckLimit(c, conn, ip, siteId)
    \/ \E c \in CallIds :
            \/ Zremrangebyscore(c)
            \/ Zcard(c)
            \/ Zadd(c)
            \/ Expire(c)
            \/ StoreFails(c)

SpecRate == InitHmac /\ [][NextRate]_vars

\* The rate limiter with its administrative reset
NextReset ==
    \/ NextRate
    \/ \E ip \in Ips, siteId \in RateSites : ResetLimit(ip, siteId)

SpecReset == InitHmac /\ [][NextReset]_vars

---------------------------------------------------------------------------
(* JWTService: issuing and verifying tokens; createPermissionMiddleware *)

\* generateAccessToken(payload) at tick t: the payload as given, with iat, exp
\* and iss set by the service
GenerateAccessToken(payload, t) ==
    JwtSign([sub |-> payload.sub, site_id |-> payload.site_id,
             tenant_id |-> payload.tenant_id, permissions |-> payload.permissions,
             iat |-> Seconds(t), exp |-> Seconds(t) + AccessLifetime,
             iss |-> Issuer, type |-> Absent],
            JwtSecret)

\* generateRefreshToken(userId, siteId, tenantId) at tick t
GenerateRefreshToken(userId, siteId, tenantId, t) ==
    JwtSign([sub |-> userId, site_id |-> siteId, tenant_id |-> tenantId,
             permissions |-> <<>>,
             iat |-> Seconds(t), exp |-> Seconds(t) + RefreshLifetime,
             iss |-> Absent, type |-> "refresh"],
            RefreshSecret)

\* an expiry check that still accepts a token in the second of its exp claim
JwtExpired_Late(clockTimestamp, exp) == clockTimestamp > exp

\* jwt.verify: a token is expired once the clock, in whole seconds, has
\* reached its exp claim
JwtExpired(clockTimestamp, exp) == clockTimestamp >= exp

\* jwt.verify(token, secret, {algorithms: ['HS256'], issuer}) at tick t: the
\* signature is checked first, then the expiry, then the issuer if one is asked for
JwtVerify(token, secret, issuer, t) ==
    IF token.signedWith # secret THEN "JsonWebTokenError"
    ELSE IF JwtExpired(Seconds(t), token.claims.exp) THEN "TokenExpiredError"
    ELSE IF issuer # Absent /\ token.claims.iss # issuer THEN "JsonWebTokenError"
    ELSE "decoded"

\* The call throws an Error with this message.
Throws(message) == [error |-> message, accepted |-> FALSE, decoded |-> NoClaims]

\* The call returns the decoded payload.
Returns(payload) == [error |-> "", accepted |-> TRUE, decoded |-> payload]

\* verifyAccessToken without the validation of the required claims
VerifyAccessToken_NoClaimCheck(token, t) ==
    LET v == JwtVerify(token, JwtSecret, Issuer, t)
    IN  IF v = "TokenExpiredError" THEN Throws("Token expired")
        ELSE IF v = "JsonWebTokenError" THEN Throws("Invalid token")
        ELSE Returns(token.claims)

\* verifyAccessToken(token) at tick t
VerifyAccessToken(token, t) ==
    LET v == JwtVerify(token, JwtSecret, Issuer, t)
    IN  IF v = "TokenExpiredError" THEN Throws("Token expired")
        ELSE IF v = "JsonWebTokenError" THEN Throws("Invalid token")
        ELSE IF Falsy(token.claims.site_id) \/ Falsy(token.claims.tenant_id)
        THEN Throws("Invalid token: missing site_id or tenant_id")
        ELSE Returns(token.claims)

\* a refresh verification that takes any token of the service: either secret,
\* no look at the type discriminator
VerifyRefreshToken_AnyToken(token, t) ==
    LET v == JwtVerify(token, token.signedWith, Absent, t)
    IN  IF token.signedWith \notin {JwtSecret, RefreshSecret} THEN Throws("Invalid refresh token")
        ELSE IF v = "TokenExpiredError" THEN Throws("Refresh token expired")
        ELSE Returns(token.claims)

\* verifyRefreshToken(token) at tick t
VerifyRefreshToken(token, t) ==
    LET v == JwtVerify(token, RefreshSecret, Absent, t)
    IN  IF v = "TokenExpiredError" THEN Throws("Refresh token expired")
        ELSE IF v = "JsonWebTokenError" THEN Throws("Invalid refresh token")
        ELSE IF token.claims.type # "refresh" THEN Throws("Invalid token type")
        ELSE Returns(token.claims)

\* isTokenExpired(token) at tick t: jwt.decode reads the claims without
\* checking the signature; no payload or no exp counts as expired
IsTokenExpired(token, t) ==
    IF token = Garbage \/ token.claims.exp = 0 THEN TRUE
    ELSE token.claims.exp < Seconds(t)

\* Array.prototype.includes
Includes(list, x) == \E i \in DOMAIN list : list[i] = x

\* a permission check that knows no wildcard
HasPermission_NoWildcard(permissions, permission) == Includes(permissions, permission)

\* PermissionChecker.hasPermission
HasPermission(permissions, permission) ==
    Includes(permissions, permission) \/ Includes(permissions, "*")

\* requiredPermissions.every(permission => hasPermission(userPayload, permission))
HasAllPermissions(permissions, required) ==
    \A i \in DOMAIN required : HasPermission(permissions, required[i])

\* permissionMiddleware: the reply it sends (status 0 for none) and the
\* `required` list of the reply body
PermissionResult(user, required) ==
    IF ~user.known
    THEN [status |-> 401, code |-> "AUTH_REQUIRED", listed |-> <<>>]
    ELSE IF ~HasAllPermissions(user.permissions, required)
    THEN [status |-> 403, code |-> "PERMISSION_DENIED", listed |-> required]
    ELSE [status |-> 0, code |-> "", listed |-> <<>>]

\* a token with the claims of the given one that the service did not sign
Forged(token) == [token EXCEPT !.signedWith = <<"forged">>]

\* The tokens a client presents: the one it holds, a forgery of it, a string
\* that is no token
Presented == {held.jwt, Forged(held.jwt), Garbage}

\* Half a second passes.
JwtTick ==
    /\ now < MaxClock
    /\ now' = now + 1
    /\ UNCHANGED <<gateVars, rateVars, authVars, diVars>>

IssueAccessToken(payload) ==
    LET token == GenerateAccessToken(payload, now)
    IN  /\ held' = [jwt |-> token, issuedAt |-> now, kind |-> "access"]
        /\ authCall' = [NoAuthCall EXCEPT !.at = now, !.jwt = token, !.issuedAt = now,
                            !.kind = "access", !.op = "generateAccessToken",
                            !.genuine = TRUE, !.minted = TRUE]
        /\ UNCHANGED <<now, gateVars, rateVars, diVars>>

IssueRefreshToken(userId, siteId, tenantId) ==
    LET token == GenerateRefreshToken(userId, siteId, tenantId, now)
    IN  /\ held' = [jwt |-> token, issuedAt |-> now, kind |-> "refresh"]
        /\ authCall' = [NoAuthCall EXCEPT !.at = now, !.jwt = token, !.issuedAt = now,
                            !.kind = "refresh", !.op = "generateRefreshToken",
                            !.genuine = TRUE, !.minted = TRUE]
        /\ UNCHANGED <<now, gateVars, rateVars, diVars>>

\* The record of a verify call on a presented token
VerifyCall(op, token, out) ==
    [NoAuthCall EXCEPT !.at = now, !.jwt = token, !.issuedAt = held.issuedAt,
        !.kind = held.kind, !.op = op,
        !.genuine = (held.kind # "none" /\ token = held.jwt), !.out = out]

VerifyAccess(token) ==
    /\ authCall' = VerifyCall("verifyAccessToken", token, VerifyAccessToken(token, now))
    /\ UNCHANGED <<now, gateVars, rateVars, held, diVars>>

VerifyRefresh(token) ==
    /\ authCall' = VerifyCall("verifyRefreshToken", token, VerifyRefreshToken(token, now))
    /\ UNCHANGED <<now, gateVars, rateVars, held, diVars>>

\* isTokenExpired is asked about a presented token.
CheckExpired(token) ==
    /\ authCall' = [VerifyCall("isTokenExpired", token, NoOutcome) EXCEPT
                        !.lapsed = IsTokenExpired(token, now)]
    /\ UNCHANGED <<now, gateVars, rateVars, held, diVars>>

\* A request with the given request.user reaches a route whose permission
\* middleware was created for the required list.
PermissionMiddleware(user, required) ==
    LET res == PermissionResult(user, required)
    IN  /\ authCall' = [NoAuthCall EXCEPT !.at = now, !.op = "permissionMiddleware",
                            !.principal = user, !.required = required,
                            !.status = res.status, !.code = res.code,
                            !.listed = res.listed]
        /\ UNCHANGED <<now, gateVars, rateVars, held, diVars>>

NextAuth ==
    \/ JwtTick
    \/ \E payload \in AccessPayloads : IssueAccessToken(payload)
    \/ \E userId \in UserIds, siteId \in ClaimSites, tenantId \in ClaimTenants :
            IssueRefreshToken(userId, siteId, tenantId)
    \/ \E token \in Presented : VerifyAccess(token)
    \/ \E token \in Presented : VerifyRefresh(token)
    \/ \E token \in Presented : CheckExpired(token)
    \/ \E user \in Users \cup {NoUser}, required \in RequiredLists :
            PermissionMiddleware(user, required)

SpecAuth == InitHmac /\ [][NextAuth]_vars

---------------------------------------------------------------------------
(* DIContainer: register, resolve, resolveAll, clear *)

\* register(token, factory, singleton): refused once the container is resolved
Register(k, factory, singleton) ==
    /\ ~isResolved
    /\ services' = [services EXCEPT ![k] =
            [factory |-> factory, registered |-> TRUE, singleton |-> singleton,
             instance |-> Undefined]]
    /\ factoryRuns' = [factoryRuns EXCEPT ![k] = NoRuns]
    /\ UNCHANGED <<now, gateVars, rateVars, authVars, isResolved, lastResolve>>

\* registration.singleton && registration.instance
Cached(registration) == registration.singleton /\ Truthy(registration.instance)

\* resolve(token) of one registration: the registration afterwards, the
\* instance returned and whether the factory ran
ResolveOne(registration, runs) ==
    IF Cached(registration)
    THEN [after |-> registration, ran |-> FALSE, got |-> registration.instance]
    ELSE LET made == FactoryValue(registration.factory, runs + 1)
         IN  [after |-> IF registration.singleton
                        THEN [registration EXCEPT !.instance = made]
                        ELSE registration,
              ran |-> TRUE, got |-> made]

\* The history of a token after a resolve of its registration
Counted(k, res) ==
    [count |-> factoryRuns[k].count + (IF res.ran THEN 1 ELSE 0),
     handed |-> factoryRuns[k].handed \cup {res.got}]

\* resolve(token)
Resolve(k) ==
    IF ~services[k].registered
    THEN /\ lastResolve' = [threw |-> TRUE, service |-> k, called |-> TRUE,
                            ran |-> FALSE, got |-> Undefined]
         /\ UNCHANGED <<now, gateVars, rateVars, authVars, services, isResolved, factoryRuns>>
    ELSE LET res == ResolveOne(services[k], factoryRuns[k].count)
         IN  /\ res.ran => factoryRuns[k].count < MaxRuns
             /\ services' = [services EXCEPT ![k] = res.after]
             /\ factoryRuns' = [factoryRuns EXCEPT ![k] = Counted(k, res)]
             /\ lastResolve' = [threw |-> FALSE, service |-> k, called |-> TRUE,
                                ran |-> res.ran, got |-> res.got]
             /\ UNCHANGED <<now, gateVars, rateVars, authVars, isResolved>>

\* resolveAll(): every singleton registration is resolved, then the container
\* is marked resolved; a call on a resolved container returns at once and
\* changes nothing
ResolveAll ==
    /\ ~isResolved
    /\ \A k \in ServiceTokens :
           (services[k].registered /\ services[k].singleton /\ ~Cached(services[k]))
               => factoryRuns[k].count < MaxRuns
    /\ services' = [k \in ServiceTokens |->
            IF services[k].registered /\ services[k].singleton
            THEN ResolveOne(services[k], factoryRuns[k].count).after
            ELSE services[k]]
    /\ factoryRuns' = [k \in ServiceTokens |->
            IF services[k].registered /\ services[k].singleton
            THEN [count |-> factoryRuns[k].count
                              + (IF ResolveOne(services[k], factoryRuns[k].count).ran
                                 THEN 1 ELSE 0),
                  handed |-> factoryRuns[k].handed]
            ELSE factoryRuns[k]]
    /\ isResolved' = TRUE
    /\ UNCHANGED <<now, gateVars, rateVars, authVars, lastResolve>>

\* clear()
Clear ==
    /\ services' = [k \in ServiceTokens |-> NotRegistered]
    /\ isResolved' = FALSE
    /\ factoryRuns' = [k \in ServiceTokens |-> NoRuns]
    /\ lastResolve' = NoResolve
    /\ UNCHANGED <<now, gateVars, rateVars, authVars>>

NextDi ==
    \/ \E k \in ServiceTokens, factory \in Factories, singleton \in BOOLEAN :
            Register(k, factory, singleton)
    \/ \E k \in ServiceTokens : Resolve(k)
    \/ ResolveAll
    \/ Clear

SpecDi == InitHmac /\ [][NextDi]_vars

---------------------------------------------------------------------------
(* Properties of the integrity service *)

\* The signature made with the per-site secret (base secret combined with the
\* salt of the site) over the canonical message of the envelope.
PerSiteSignature(sr, siteId) ==
    Digest(<<Secret, ":", GetSiteSalt(siteId)>>,
           CreateMessage(sr.payload, sr.timestamp, sr.nonce, siteId))

\* C1: a (site_id, nonce) pair is accepted at most once within the replay window:
\* when verify accepts a pair it accepted before, the earlier acceptance lies
\* more than MaxAge back.
C1_AcceptedOncePerWindow ==
    (lastVerify.called /\ lastVerify.result.valid /\ lastVerify.prevAccept.at # -1)
        => lastVerify.at - lastVerify.prevAccept.at > MaxAge

\* C2: a verify of an envelope identical (site, nonce, timestamp, payload) to
\* one accepted before fails with 'Nonce already used', whatever its signature
\* and whenever it arrives.
C2_ReplayFailsNonceReused ==
    (/\ lastVerify.called
     /\ lastVerify.prevAccept.at # -1
     /\ lastVerify.prevAccept.timestamp = lastVerify.sr.timestamp)
        => (~lastVerify.result.valid /\ lastVerify.result.error = "Nonce already used")

\* C4: an envelope signed with the per-site secret whose nonce is not in the
\* store is accepted if and only if its age is at most MaxAge.
C4_FreshSignedValidIffYoung ==
    (/\ lastVerify.called
     /\ lastVerify.siteSalt = GetSiteSalt(lastVerify.siteId)
     /\ lastVerify.sr.signature = PerSiteSignature(lastVerify.sr, lastVerify.siteId)
     /\ lastVerify.fresh)
        => (lastVerify.result.valid <=> lastVerify.at - lastVerify.sr.timestamp <= MaxAge)

\* C4 witness: a per-site-signed envelope with a fresh nonce is accepted at an
\* age of exactly MaxAge.
C4_Witness ==
    /\ lastVerify.called
    /\ lastVerify.sr.signature = PerSiteSignature(lastVerify.sr, lastVerify.siteId)
    /\ lastVerify.fresh
    /\ lastVerify.at - lastVerify.sr.timestamp = MaxAge
    /\ lastVerify.result.valid

\* C5: the envelope sign returned for a site is accepted when it is verified
\* promptly for that site with the salt of the site.
C5_SignedEnvelopeAccepted ==
    (/\ lastVerify.called
     /\ lastSigned.called
     /\ lastVerify.sr = lastSigned.sr
     /\ lastVerify.siteId = lastSigned.siteId
     /\ lastVerify.siteSalt = GetSiteSalt(lastVerify.siteId)
     /\ lastVerify.fresh
     /\ lastVerify.at - lastVerify.sr.timestamp <= MaxAge)
        => lastVerify.result.valid

\* C6: every entry a verify call evicts from the nonce store was added more
\* than MaxAge before.
C6_EvictsOnlyOld ==
    lastVerify.called =>
        \A e \in lastVerify.evicted : lastVerify.at - e.at > MaxAge

---------------------------------------------------------------------------
(* Properties of the request gate *)

\* The site of the principal the gate resolved for request r: the site_id claim
\* of the verified token (unless the authentication stage ended in an error), or
\* the site of the API key; "none" before that.
PrincipalSite(r) ==
    IF reqs[r].user # "none" /\ reqs[r].thrown # "auth" THEN reqs[r].user
    ELSE reqs[r].site_id

\* The position of a stage in the order authentication, site scope, permission
\* check, rate-limit check, integrity verification.
StageRank(stage) ==
    CASE stage \in {"auth", "apiKey"} -> 1
      [] stage = "siteAccess" -> 2
      [] stage = "permission" -> 3
      [] stage = "rateLimit" -> 4
      [] stage = "hmac" -> 5

\* C3: of two verifications of one identical envelope for one site, on one
\* instance or on two, at most one returns valid.
C3_IdenticalEnvelopeValidOnce ==
    \A r1, r2 \in Requests :
        (/\ r1 # r2
         /\ reqs[r1].route = "write" /\ reqs[r2].route = "write"
         /\ reqs[r1].apiKey = reqs[r2].apiKey
         /\ reqs[r1].headers = reqs[r2].headers)
            => ~(reqs[r1].hmacValid /\ reqs[r2].hmacValid)

\* C7: a request on a read or write route whose principal has a site other
\* than the target site of the path never reaches the handler and, once
\* answered, was answered 403 SITE_ACCESS_DENIED.
C7_SiteMismatchDenied ==
    \A r \in Requests :
        (/\ reqs[r].route \in {"read", "write"}
         /\ PrincipalSite(r) # "none"
         /\ PrincipalSite(r) # reqs[r].target)
            => /\ ~reqs[r].handlerRan
               /\ reqs[r].pc = "done" =>
                      reqs[r].reply = [status |-> 403, code |-> "SITE_ACCESS_DENIED"]

\* C8: the stages that ran for a request ran in the order authentication, site
\* scope, permission, rate limit, integrity; the rate-limit stage ran only
\* after a stage that authenticated the principal.
C8_StageOrder ==
    \A r \in Requests :
        LET st == reqs[r].stages
        IN  /\ \A i, j \in 1..Len(st) :
                   i < j => StageRank(st[i][1]) < StageRank(st[j][1])
            /\ \A j \in 1..Len(st) :
                   st[j][1] = "rateLimit" =>
                       \E i \in 1..(j - 1) :
                           st[i][1] \in {"auth", "apiKey"} /\ st[i][2] = "pass"

\* C9: a stage that denied a request is the last stage that ran for it, and
\* the handler of that request did not run.
C9_ShortCircuit ==
    \A r \in Requests :
        \A i \in 1..Len(reqs[r].stages) :
            reqs[r].stages[i][2] = "deny" =>
                /\ i = Len(reqs[r].stages)
                /\ ~reqs[r].handlerRan
                /\ reqs[r].pc = "done"

\* C9 witness: a read request denied at authentication, with the site-scope
\* stage and the handler still ahead of it, has come to rest.
C9_Witness ==
    \E r \in Requests :
        /\ reqs[r].route = "read"
        /\ reqs[r].stages = <<<<"rateLimit", "failopen">>, <<"auth", "deny">>>>
        /\ reqs[r].reply = [status |-> 401, code |-> "AUTH_REQUIRED"]
        /\ reqs[r].pc = "done"
        /\ ~reqs[r].handlerRan

\* C10: a tracking write whose handler ran had a principal resolved, the site
\* of the principal equal to the target site, a rate-limit stage that passed
\* or failed open, and a valid integrity verification.
C10_WriteAdmittedOnlyIfAllPassed ==
    \A r \in Requests :
        (reqs[r].route = "write" /\ reqs[r].handlerRan)
            => /\ PrincipalSite(r) # "none"
               /\ PrincipalSite(r) = reqs[r].target
               /\ \E i \in 1..Len(reqs[r].stages) :
                      /\ reqs[r].stages[i][1] = "rateLimit"
                      /\ reqs[r].stages[i][2] \in {"pass", "failopen"}
               /\ reqs[r].hmacValid

---------------------------------------------------------------------------
(* Properties of the rate limiter *)

\* A checkLimit call that returned a result and ran with no other call on its
\* key in flight, on a key none of whose calls threw
Undisturbed(c) ==
    /\ calls[c].step = "done"
    /\ ~calls[c].threw
    /\ ~calls[c].overlapped
    /\ \A d \in CallIds : calls[d].key = calls[c].key => ~calls[d].threw

\* C11: of the calls on one key within one window, the first RateMax return
\* allowed = true and the next one returns allowed = false and remaining = 0.
C11_QuotaEnforced ==
    \A c \in CallIds :
        Undisturbed(c) =>
            /\ Cardinality(calls[c].prior) < RateMax => calls[c].returned.allowed
            /\ Cardinality(calls[c].prior) = RateMax =>
                   (~calls[c].returned.allowed /\ calls[c].returned.remaining = 0)

\* The calls on the key of c answered allowed = true in the window that ends at c
AllowedInWindow(c) ==
    {d \in CallIds : /\ calls[d].key = calls[c].key
                     /\ calls[d].step = "done" /\ ~calls[d].threw
                     /\ calls[d].returned.allowed
                     /\ calls[c].t - calls[d].t >= 0
                     /\ calls[c].t - calls[d].t < RateWindow}

\* C12: no call takes its count between the count and the insert of another
\* call on its key, and the calls answered allowed = true within one window
\* never number more than RateMax.
C12_AtomicPipeline ==
    \A c \in CallIds :
        /\ ~calls[c].stale
        /\ (calls[c].step = "done" /\ ~calls[c].threw)
               => Cardinality(AllowedInWindow(c)) <= RateMax

\* C13: a call that finds every entry of its key a full window old sees an
\* empty window: totalHits = 0 and allowed = true.
C13_ResetAfterFullWindow ==
    \A c \in CallIds :
        (Undisturbed(c) /\ calls[c].quiet)
            => (calls[c].returned.totalHits = 0 /\ calls[c].returned.allowed)

\* C13 witness: a key whose quota was used up (a call on it returned
\* remaining = 0) is called again a full window later and is allowed.
C13_Witness ==
    \E c, d \in CallIds :
        /\ Undisturbed(c) /\ calls[c].quiet
        /\ calls[d].key = calls[c].key /\ calls[d].step = "done"
        /\ calls[d].returned.totalHits >= RateMax /\ calls[d].returned.remaining = 0
        /\ calls[c].t - calls[d].t >= RateWindow
        /\ calls[c].returned.totalHits = 0 /\ calls[c].returned.allowed

\* C14: a checkLimit call that throws is admitted by the rate-limit stage: no
\* 429 is sent and the chain goes on to the next hook.
C14_FailOpen ==
    \A c \in CallIds :
        (calls[c].step = "done" /\ calls[c].threw)
            => /\ calls[c].verdict = "failopen"
               /\ calls[c].replied # 429
               /\ calls[c].continues

\* C14 witness: the store was unreachable for a call and the middleware let
\* the request through.
C14_Witness ==
    \E c \in CallIds :
        /\ calls[c].step = "done" /\ calls[c].threw
        /\ calls[c].verdict = "failopen" /\ calls[c].replied = 0
        /\ calls[c].continues

\* C15: when one client has sent more requests within a window than RateMax
\* through the registered routes, the requests in excess were answered 429.
C15_ExcessAnswered429 ==
    ((\A r \in Requests : reqs[r].pc = "done") /\ Cardinality(Requests) > RateMax)
        => Cardinality({r \in Requests : reqs[r].reply.status = 429})
               >= Cardinality(Requests) - RateMax

---------------------------------------------------------------------------
(* Properties of the request gate: errors and principals *)

\* C16: a request whose authentication, API-key or integrity stage met an
\* internal error is denied and its handler never runs.
C16_FailClosed ==
    \A r \in Requests :
        reqs[r].thrown \in {"auth", "apiKey", "hmac"}
            => /\ reqs[r].reply.status >= 400
               /\ reqs[r].pc = "done"
               /\ ~reqs[r].handlerRan

\* C16 witness: the site-salt lookup of a tracking write with a valid API key
\* and all headers threw, and the request was answered with an error.
C16_Witness ==
    \E r \in Requests :
        /\ reqs[r].thrown = "hmac"
        /\ reqs[r].headers.present
        /\ reqs[r].stages =
               <<<<"rateLimit", "failopen">>, <<"apiKey", "pass">>, <<"hmac", "deny">>>>
        /\ reqs[r].reply = [status |-> 500, code |-> "HMAC_VALIDATION_ERROR"]
        /\ reqs[r].pc = "done" /\ ~reqs[r].handlerRan

ResponseTable ==
    {[status |-> 401, code |-> "AUTH_REQUIRED"],
     [status |-> 401, code |-> "AUTH_INVALID"],
     [status |-> 400, code |-> "HMAC_HEADERS_MISSING"],
     [status |-> 401, code |-> "HMAC_INVALID"],
     [status |-> 403, code |-> "SITE_ACCESS_DENIED"],
     [status |-> 403, code |-> "PERMISSION_DENIED"],
     [status |-> 429, code |-> "RATE_LIMIT_EXCEEDED"]}

\* C18: every denial carries a (status, code) pair of the response table.
C18_DenialsInTable ==
    \A r \in Requests :
        reqs[r].reply.status >= 400 => reqs[r].reply \in ResponseTable

\* The sites the principal store holds
StoredSites == SiteIds

\* C19: an API key resolves to a principal only if the principal store holds
\* a site for it.
C19_KeyResolvedByStore ==
    \A r \in Requests :
        (reqs[r].route = "write" /\ reqs[r].site_id # "none")
            => reqs[r].apiKey \in StoredSites

\* C20: a request with a verified token whose site_id claim names no site is
\* not served: its handler never runs and it is answered 403.
C20_InvalidSiteRejected ==
    \A r \in Requests :
        (/\ reqs[r].token.verifies
         /\ reqs[r].token.site_id \notin SiteIds
         /\ reqs[r].thrown = "none")
            => /\ ~reqs[r].handlerRan
               /\ reqs[r].pc = "done" => reqs[r].reply.status = 403

-----------------------------------------------------------------------------
\* Integrity checks of verify, one by one

\* C21: a verify of an envelope older than MaxAge fails with 'Request too old',
\* whatever its signature and whether or not its nonce is in the store: the
\* timestamp check decides before the nonce and signature checks.
C21_TooOldDecidesFirst ==
    (lastVerify.called /\ lastVerify.at - lastVerify.sr.timestamp > MaxAge)
        => (/\ ~lastVerify.result.valid
            /\ lastVerify.result.error = "Request too old"
            /\ lastVerify.evicted = {})

\* C21 witness: an envelope with the per-site signature and a nonce not in the
\* store, older than MaxAge, is rejected as too old.
C21_Witness ==
    /\ lastVerify.called
    /\ lastVerify.sr.signature = PerSiteSignature(lastVerify.sr, lastVerify.siteId)
    /\ lastVerify.fresh
    /\ lastVerify.at - lastVerify.sr.timestamp > MaxAge
    /\ lastVerify.result.error = "Request too old"

\* C22: a verify of an envelope that is young enough, with a nonce not in the
\* store and a signature other than the expected one, fails with
\* 'Invalid signature', whatever the length of the signature.
C22_WrongSignatureInvalid ==
    (/\ lastVerify.called
     /\ lastVerify.at - lastVerify.sr.timestamp <= MaxAge
     /\ lastVerify.fresh
     /\ lastVerify.sr.signature # PerSiteSignature(lastVerify.sr, lastVerify.siteId))
        => (~lastVerify.result.valid /\ lastVerify.result.error = "Invalid signature")

\* C23: replay detection is keyed on (site_id, nonce): a young envelope with
\* the per-site signature whose (site, nonce) pair was never accepted on the
\* instance does not fail with 'Nonce already used'.
C23_ReplayKeyedBySite ==
    (/\ lastVerify.called
     /\ lastVerify.at - lastVerify.sr.timestamp <= MaxAge
     /\ lastVerify.sr.signature = PerSiteSignature(lastVerify.sr, lastVerify.siteId)
     /\ lastVerify.prevAccept.at = -1)
        => lastVerify.result.error # "Nonce already used"

-----------------------------------------------------------------------------
\* Tokens and permissions

\* The members of a list
Members(list) == {list[i] : i \in DOMAIN list}

\* C24: an authenticated principal passes the permission stage exactly when
\* every required permission is in its permission set or the set contains '*';
\* otherwise the reply is 403 PERMISSION_DENIED and carries exactly the
\* required permission list.
C24_PermissionStage ==
    (authCall.op = "permissionMiddleware" /\ authCall.principal.known)
        => LET granted == Members(authCall.principal.permissions)
               entitled == Members(authCall.required) \subseteq granted \/ "*" \in granted
           IN  IF entitled
               THEN authCall.status = 0
               ELSE /\ authCall.status = 403
                    /\ authCall.code = "PERMISSION_DENIED"
                    /\ authCall.listed = authCall.required

\* C24 witness: a principal holding the wildcard passes a stage that requires
\* a permission its list does not name.
C24_Witness ==
    /\ authCall.op = "permissionMiddleware"
    /\ authCall.principal.known
    /\ "*" \in Members(authCall.principal.permissions)
    /\ ~(Members(authCall.required) \subseteq Members(authCall.principal.permissions))
    /\ authCall.status = 0

\* C25: verifyAccessToken fails with 'Invalid token' when the token is not
\* signed with the access secret, with 'Token expired' when a signed token is
\* past its expiry, with 'Invalid token: missing site_id or tenant_id' when a
\* signed, unexpired token lacks one of the two claims, and otherwise returns
\* the full claim set of the token.
C25_AccessFailuresClassified ==
    (authCall.op = "verifyAccessToken")
        => LET claims == authCall.jwt.claims
               malformed == authCall.jwt.signedWith # JwtSecret
               expired == Seconds(authCall.at) >= claims.exp
               incomplete == Falsy(claims.site_id) \/ Falsy(claims.tenant_id)
           IN  IF malformed THEN authCall.out = Throws("Invalid token")
               ELSE IF expired THEN authCall.out = Throws("Token expired")
               ELSE IF incomplete
               THEN authCall.out = Throws("Invalid token: missing site_id or tenant_id")
               ELSE authCall.out.accepted /\ authCall.out.decoded = claims

\* C25 witness: an unexpired token the service signed, with an empty or absent
\* site_id, is refused for its missing claim.
C25_Witness ==
    /\ authCall.op = "verifyAccessToken"
    /\ authCall.genuine
    /\ authCall.kind = "access"
    /\ Falsy(authCall.jwt.claims.site_id)
    /\ authCall.out.error = "Invalid token: missing site_id or tenant_id"

\* The token of the call was issued by the service with both site_id and tenant_id.
CompleteClaims ==
    ~Falsy(authCall.jwt.claims.site_id) /\ ~Falsy(authCall.jwt.claims.tenant_id)

\* C26 as stated: a token issued at time t is accepted at every time earlier
\* than t plus its lifetime and rejected as expired from then on, for access
\* tokens with AccessLifetime and for refresh tokens with RefreshLifetime.
C26_LifetimeFromIssueInstant ==
    /\ (authCall.op = "verifyAccessToken" /\ authCall.genuine
            /\ authCall.kind = "access" /\ CompleteClaims)
        => IF authCall.at < authCall.issuedAt + AccessLifetime * TicksPerSecond
           THEN authCall.out.accepted
           ELSE authCall.out = Throws("Token expired")
    /\ (authCall.op = "verifyRefreshToken" /\ authCall.genuine /\ authCall.kind = "refresh")
        => IF authCall.at < authCall.issuedAt + RefreshLifetime * TicksPerSecond
           THEN authCall.out.accepted
           ELSE authCall.out = Throws("Refresh token expired")

\* C26, amended: the lifetime counts in whole seconds from the second of
\* issue.  A token issued in second s is accepted while the clock's second is
\* earlier than s plus the lifetime and rejected as expired from that second on.
C26_LifetimeInWholeSeconds ==
    /\ (authCall.op = "verifyAccessToken" /\ authCall.genuine
            /\ authCall.kind = "access" /\ CompleteClaims)
        => IF Seconds(authCall.at) < Seconds(authCall.issuedAt) + AccessLifetime
           THEN authCall.out.accepted
           ELSE authCall.out = Throws("Token expired")
    /\ (authCall.op = "verifyRefreshToken" /\ authCall.genuine /\ authCall.kind = "refresh")
        => IF Seconds(authCall.at) < Seconds(authCall.issuedAt) + RefreshLifetime
           THEN authCall.out.accepted
           ELSE authCall.out = Throws("Refresh token expired")

\* C26 witness: an access token issued in the middle of a second is rejected
\* as expired less than AccessLifetime after its issue.
C26_Witness ==
    /\ authCall.op = "verifyAccessToken"
    /\ authCall.genuine
    /\ authCall.kind = "access"
    /\ CompleteClaims
    /\ authCall.at < authCall.issuedAt + AccessLifetime * TicksPerSecond
    /\ authCall.out = Throws("Token expired")

\* C27: verifyAccessToken accepts no token generateRefreshToken issued and
\* verifyRefreshToken accepts no token generateAccessToken issued.
C27_NoCrossUse ==
    /\ (authCall.op = "verifyAccessToken" /\ authCall.genuine /\ authCall.kind = "refresh")
        => ~authCall.out.accepted
    /\ (authCall.op = "verifyRefreshToken" /\ authCall.genuine /\ authCall.kind = "access")
        => ~authCall.out.accepted

\* C27 witness: an unexpired access token with complete claims is presented to
\* verifyRefreshToken and refused.
C27_Witness ==
    /\ authCall.op = "verifyRefreshToken"
    /\ authCall.genuine
    /\ authCall.kind = "access"
    /\ CompleteClaims
    /\ Seconds(authCall.at) < authCall.jwt.claims.exp
    /\ ~authCall.out.accepted

\* C28: verifyRefreshToken refuses an unexpired refresh token of the service
\* whose site_id or tenant_id is absent or empty, for its missing claim.
C28_RefreshClaimsRequired ==
    (/\ authCall.op = "verifyRefreshToken"
     /\ authCall.genuine
     /\ authCall.kind = "refresh"
     /\ Seconds(authCall.at) < authCall.jwt.claims.exp
     /\ ~CompleteClaims)
        => (/\ ~authCall.out.accepted
            /\ authCall.out.error = "Invalid token: missing site_id or tenant_id")

\* C29: generateAccessToken mints a token only for claims whose site_id and
\* tenant_id are both non-empty.
C29_IssueNeedsSiteAndTenant ==
    (authCall.op = "generateAccessToken" /\ authCall.minted) => CompleteClaims

-----------------------------------------------------------------------------
\* The nonce store and the age of accepted envelopes

\* C34: a verify call that returns valid = false leaves the nonce store of
\* every instance as it was.
C34_RejectionKeepsStore ==
    [][(lastVerify'.called /\ ~lastVerify'.result.valid) => nonceCache' = nonceCache]_vars

\* C34 witness: an envelope with an unused nonce was refused for its signature
\* and its nonce is still not in the store.
C34_Witness ==
    /\ lastVerify.called
    /\ lastVerify.fresh
    /\ lastVerify.result.error = "Invalid signature"
    /\ ~Has(nonceCache[lastVerify.inst], lastVerify.sr.nonce)

\* C35: every envelope verify accepts has an age between 0 and MaxAge at the
\* moment of acceptance; a timestamp in the future of the clock is refused.
C35_AcceptedAgeInRange ==
    (lastVerify.called /\ lastVerify.result.valid)
        => (/\ 0 <= lastVerify.at - lastVerify.sr.timestamp
            /\ lastVerify.at - lastVerify.sr.timestamp <= MaxAge)

\* C36: the nonce cache of an instance never holds more than CacheLimit
\* entries, and a verify call that evicts leaves CacheKeep entries.
C36_CacheBounded ==
    /\ \A i \in Instances : Len(nonceCache[i]) <= CacheLimit
    /\ (lastVerify.called /\ lastVerify.evicted # {})
           => Len(nonceCache[lastVerify.inst]) = CacheKeep

\* C36 witness: an accepted envelope made the cache exceed CacheLimit and the
\* clean-up cut it down to CacheKeep entries.
C36_Witness ==
    /\ lastVerify.called
    /\ lastVerify.result.valid
    /\ lastVerify.evicted # {}
    /\ Len(nonceCache[lastVerify.inst]) = CacheKeep

\* C38: for a token generateAccessToken issued, isTokenExpired at a time t is
\* true exactly when verifyAccessToken at t fails with 'Token expired', the
\* second t = exp included.
C38_ExpiryTestsAgree ==
    (authCall.op = "isTokenExpired" /\ authCall.genuine /\ authCall.kind = "access")
        => (authCall.lapsed
               <=> VerifyAccessToken(authCall.jwt, authCall.at).error = "Token expired")

-----------------------------------------------------------------------------
\* The dependency-injection container

\* C39: for a token registered as a singleton, the factory of the registration
\* runs at most once over all resolve and resolveAll calls and resolve always
\* returns the same instance, whatever the factory returns.
C39_SingletonFactoryOnce ==
    \A k \in ServiceTokens :
        (services[k].registered /\ services[k].singleton)
            => (factoryRuns[k].count <= 1 /\ Cardinality(factoryRuns[k].handed) <= 1)

-----------------------------------------------------------------------------
\* The result of checkLimit, the window and the reset

\* The entry the call inserts for itself
OwnEntry(c) == [score |-> calls[c].t, member |-> c]

C32_WindowClosedBelow ==
    [][\A c \in CallIds :
          (calls[c].step = "zremrangebyscore" /\ calls'[c].step = "zcard")
              => \A m \in Live(calls[c].key) :
                    m.score >= calls[c].windowStart => m \in zset'[calls[c].key]]_vars

\* C33: resetLimit on a key leaves the entries and the time to live of every
\* other key as they were, and the next checkLimit on the key, when no other
\* call on the key overlaps, returns totalHits = 0 and allowed = true.
C33_ResetClearsOneKey ==
    /\ [](\A c \in CallIds :
            (Undisturbed(c) /\ calls[c].afterReset)
                => (calls[c].returned.totalHits = 0 /\ calls[c].returned.allowed))
    /\ [][\A k \in RateKeys :
            cleared'[k].times # cleared[k].times
                => \A j \in RateKeys \ {k} :
                      zset'[j] = zset[j] /\ expireAt'[j] = expireAt[j]]_vars

\* C33 witness: a call made its entry on a key, the key is reset, and the
\* next call on it, in the same window, counts nothing and is allowed.
C33_Witness ==
    \E c, d \in CallIds :
        /\ Undisturbed(c) /\ calls[c].afterReset
        /\ d \in calls[c].prior
        /\ calls[c].returned.totalHits = 0 /\ calls[c].returned.allowed

\* C37: the insert step of every checkLimit call adds exactly one entry, the
\* call's own, to its key, whatever the count of the call was; and a call
\* whose pipeline runs at once and that finds more than RateMax completed
\* calls of its window on its key, allowed or denied, is denied.
C37_EveryCallConsumes ==
    /\ [](\A c \in CallIds :
            (Undisturbed(c) /\ ~calls[c].late /\ Cardinality(calls[c].prior) > RateMax)
                => ~calls[c].returned.allowed)
    /\ [][\A c \in CallIds :
            (calls[c].step = "zadd" /\ calls'[c].step = "expire")
                => /\ OwnEntry(c) \notin Live(calls[c].key)
                   /\ zset'[calls[c].key] = Live(calls[c].key) \cup {OwnEntry(c)}]_vars

\* C37 witness: a call was denied and its entry is in the window of its key.
C37_Witness ==
    \E c \in CallIds :
        /\ calls[c].step = "done" /\ ~calls[c].threw
        /\ ~calls[c].returned.allowed
        /\ OwnEntry(c) \in Live(calls[c].key)

=============================================================================
